---------------------------- MODULE Spec2Model ----------------------------
(***************************************************************************)
(* A model of the Nexus export orchestrator of src/script.py: the driver   *)
(* of export_all / process_repository (listing, pagination, batch join)    *)
(* and the download_asset coroutines that asyncio.gather runs             *)
(* concurrently on one event loop.                                         *)
(*                                                                         *)
(* Granularity.  The program is single-threaded asyncio: a coroutine runs  *)
(* without interruption from one await to the next.  Every action below is *)
(* the code between two awaits of one coroutine:                           *)
(*   download_asset_start     lines 76-98   up to the await of session.get *)
(*   download_asset_response  lines 98-100  the response; status test; open*)
(*   download_asset_chunk     lines 101-103 one chunk arrives, is written  *)
(*   download_asset_finish    lines 101-107 end of the body; file closed   *)
(* The first steps of the tasks of a batch run in list order (gather wraps *)
(* the coroutines into tasks in argument order and the loop's ready queue  *)
(* is first-in first-out); everything after a task's first suspension is   *)
(* interleaved freely with the other tasks.                                *)
(*                                                                         *)
(* The server and the disk are the environment.  What the server holds is  *)
(* the scenario chosen in Init (repositories, page chains, each asset's    *)
(* status and body).  Transient failures (transport errors, filesystem     *)
(* errors) are injected nondeterministically, at most MaxFaults per run.   *)
(* Assets are well formed (they carry downloadUrl and path, section 3 of   *)
(* the spec) and asset paths are unique within a repository, except under  *)
(* SpecAnyListing, whose servers may list a path twice; a file is          *)
(* modelled by its size.  A GET answers with the status and the body the   *)
(* server holds for the asset; a body arrives in chunks of CHUNK_SIZE      *)
(* bytes, the last one shorter.                                            *)
(***************************************************************************)
EXTENDS Integers, Sequences, FiniteSets, TLC

VARIABLES
    scenario,   \* what the server holds and the tree on disk before run 1
    run,        \* number of the current run of the program (1, 2, ...)
    pc,         \* position of the driver coroutine
    repoIdx,    \* index in the listing of the repository being processed
    token,      \* continuation_token of process_repository
    result,     \* result["continuationToken"] of the page being processed
    tasks,      \* the download_asset tasks of the last page that had assets
    stats,      \* self.stats: repository name -> record
    fs,         \* the disk: full path -> size, for the files that exist
    clock,      \* time.time(), a logical clock
    faults,     \* number of transient failures injected so far in this run
    base,       \* history: the repository's counters when the batch was launched
    fetched,    \* history: the get_components calls of this run, in order
    getLog,     \* history: <<run, repository, path>> of every GET issued
    okLog,      \* history: <<run, repository, path>> of every counted download
    printed,    \* history: the per-repository summaries printed in this run
    listed,     \* history: how get_repositories ended ("no" before it was called)
    targets,    \* history: repository and full_path of every task started in this run
    written,    \* history: bytes written to disk in this run, per repository
    summary     \* the overall summary printed by main, once a run has ended

vars == <<scenario, run, pc, repoIdx, token, result, tasks, stats, fs, clock,
          faults, base, fetched, getLog, okLog, printed, listed, targets,
          written, summary>>

-----------------------------------------------------------------------------
(* Program constants *)

BASE_OUTPUT_DIR == "nexus_artifacts"
MAX_CONCURRENT_DOWNLOADS == 10
CHUNK_SIZE == 8192

(* Bounds of the model *)

MaxFaults == 2
MaxRuns == 2

-----------------------------------------------------------------------------
(* JSON values *)

Null == "null"                  \* JSON null / Python None, as a token
Falsy(tok) == tok \in {Null, ""}  \* "not continuation_token"

Min(a, b) == IF a < b THEN a ELSE b

RECURSIVE SumSeq(_)
SumSeq(s) == IF s = <<>> THEN 0 ELSE Head(s) + SumSeq(Tail(s))

RECURSIVE Concat(_)
Concat(ss) == IF ss = <<>> THEN <<>> ELSE Head(ss) \o Concat(Tail(ss))


-----------------------------------------------------------------------------
(* What the server holds.  An asset is the JSON object of the components   *)
(* listing (path, fileSize when the server declares one) together with     *)
(* what a GET of its downloadUrl answers: the status and the body length.  *)

Asset(p, size, st, len) == [path |-> p, fileSize |-> size, status |-> st, body |-> len]
AssetNoSize(p, st, len) == [path |-> p, status |-> st, body |-> len]
Component(as) == [assets |-> as]
Page(its, tok) == [items |-> its, continuationToken |-> tok]

NoFiles == [p \in {} |-> 0]
File(p, n) == p :> n

\* A destination that leaves the repository's directory out.
FullPathFlat(repository_name, relative_path) ==
    BASE_OUTPUT_DIR \o "/" \o relative_path

FullPath(repository_name, relative_path) ==
    BASE_OUTPUT_DIR \o "/" \o repository_name \o "/" \o relative_path

\* Three assets of 100, 200 and 300 bytes in one page.
ScStats ==
    [repos |-> <<"r1">>,
     pages |-> "r1" :> << Page(<< Component(<< Asset("a", 100, 200, 100),
                                               Asset("b", 200, 200, 200) >>),
                                  Component(<< Asset("c", 300, 200, 300) >>) >>, Null) >>,
     tree  |-> NoFiles]

\* A tree left by an earlier export: x is one byte short, y is a stale,
\* longer file whose asset declares no size, z is an empty file.
ResumePages ==
    "r1" :> << Page(<< Component(<< Asset("x", 1000, 200, 1000),
                                    AssetNoSize("y", 200, 8200) >>) >>, "t2"),
               Page(<< Component(<< Asset("z", 0, 200, 0),
                                    Asset("w", 5, 404, 0) >>) >>, Null) >>
    @@ "r2" :> << Page(<< >>, Null) >>

ScFresh ==
    [repos |-> <<"r1", "r2">>, pages |-> ResumePages, tree |-> NoFiles]

ScResume ==
    [repos |-> <<"r1", "r2">>, pages |-> ResumePages,
     tree  |-> File(FullPath("r1", "x"), 999) @@ File(FullPath("r1", "y"), 9000)
               @@ File(FullPath("r1", "z"), 0)]

ScMirrored ==
    [repos |-> <<"r1", "r2">>, pages |-> ResumePages,
     tree  |-> File(FullPath("r1", "x"), 1000) @@ File(FullPath("r1", "y"), 8200)
               @@ File(FullPath("r1", "z"), 0) @@ File(FullPath("r1", "w"), 5)]

\* A chain of three pages (tokens on pages 1 and 2), then a second repository.
ScChain ==
    [repos |-> <<"r1", "r2">>,
     pages |-> "r1" :> << Page(<< Component(<< Asset("a", 12, 200, 12) >>) >>, "t2"),
                          Page(<< Component(<< >>) >>, "t3"),
                          Page(<< Component(<< Asset("b", 7, 200, 7) >>) >>, Null) >>
               @@ "r2" :> << Page(<< Component(<< Asset("a", 3, 200, 3) >>) >>, Null) >>,
     tree  |-> NoFiles]

\* A server that answers page 1 with an empty string as its token.
ScEmptyToken ==
    [repos |-> <<"r1">>,
     pages |-> "r1" :> << Page(<< Component(<< Asset("a", 12, 200, 12) >>) >>, ""),
                          Page(<< Component(<< Asset("b", 7, 200, 7) >>) >>, Null) >>,
     tree  |-> NoFiles]

\* One page of eleven assets, one more than MAX_CONCURRENT_DOWNLOADS; the
\* server has lost the blobs of all but the first two.
ScBigBatch ==
    [repos |-> <<"r1">>,
     pages |-> "r1" :> << Page(<< Component(<< Asset("a1", 4, 200, 4),
                                               Asset("a2", 0, 200, 0),
                                               Asset("a3", 1, 404, 0),
                                               Asset("a4", 1, 404, 0),
                                               Asset("a5", 1, 404, 0),
                                               Asset("a6", 1, 404, 0) >>),
                                  Component(<< Asset("a7", 1, 404, 0),
                                               Asset("a8", 1, 404, 0),
                                               Asset("a9", 1, 404, 0),
                                               Asset("a10", 1, 404, 0),
                                               Asset("a11", 1, 404, 0) >>) >>, Null) >>,
     tree  |-> NoFiles]

\* A page of five assets; the download of the third answers 500.
ScIsolation ==
    [repos |-> <<"r1">>,
     pages |-> "r1" :> << Page(<< Component(<< Asset("a1", 10, 200, 10),
                                               Asset("a2", 20, 200, 20),
                                               Asset("a3", 30, 500, 0),
                                               Asset("a4", 40, 200, 40),
                                               Asset("a5", 50, 200, 50) >>) >>, Null) >>,
     tree  |-> NoFiles]

\* A mirror that is complete for r1, a stale local file whose asset the
\* server refuses for r2, and a repository without any asset.
ScLeftovers ==
    [repos |-> <<"r1", "r2", "r3">>,
     pages |-> ("r1" :> << Page(<< Component(<< Asset("a", 12, 200, 12) >>) >>, Null) >>)
               @@ ("r2" :> << Page(<< Component(<< Asset("w", 5, 404, 0) >>) >>, Null) >>)
               @@ ("r3" :> << Page(<< >>, Null) >>),
     tree  |-> File(FullPath("r1", "a"), 12) @@ File(FullPath("r2", "w"), 3)]

\* A page that lists the same path twice, in two components.
ScTwice ==
    [repos |-> <<"r1">>,
     pages |-> "r1" :> << Page(<< Component(<< Asset("a", 12, 200, 12) >>),
                                  Component(<< Asset("a", 12, 200, 12) >>) >>, Null) >>,
     tree  |-> NoFiles]

\* A server with no repository at all.
ScNoRepos == [repos |-> << >>, pages |-> NoFiles, tree |-> NoFiles]

Scenarios == {ScStats, ScFresh, ScResume, ScMirrored, ScChain, ScEmptyToken,
              ScNoRepos, ScIsolation, ScLeftovers}

\* The page the server answers for a components request: the first page
\* when the request carries no continuationToken parameter, else the page
\* that follows the one that handed out the token.
ServerPage(sc, repository_name, continuation_token) ==
    LET chain == sc.pages[repository_name]
    IN  IF Falsy(continuation_token)
        THEN chain[1]
        ELSE chain[1 + CHOOSE i \in 1..Len(chain) :
                            chain[i].continuationToken = continuation_token]

-----------------------------------------------------------------------------
(* self.stats and its three mutations (download_asset) *)

NoStats == [r \in {} |-> 0]

\* A record that every starting task creates anew.
InitStatsAlways(s, repository_name, now) ==
    (repository_name :> [downloaded_assets |-> 0, downloaded_size |-> 0,
                         start_time |-> now]) @@ s

\* Lines 83-88: the record is created only when the repository has none.
InitStats(s, repository_name, now) ==
    IF repository_name \notin DOMAIN s
    THEN (repository_name :> [downloaded_assets |-> 0, downloaded_size |-> 0,
                              start_time |-> now]) @@ s
    ELSE s

\* A byte counter that is assigned the chunk length instead of increased.
AddBytesAssign(s, repository_name, n) ==
    [s EXCEPT ![repository_name].downloaded_size = n]

AddBytes(s, repository_name, n) ==
    [s EXCEPT ![repository_name].downloaded_size = @ + n]

AddAsset(s, repository_name) ==
    [s EXCEPT ![repository_name].downloaded_assets = @ + 1]

\* The two counters of a repository; a repository without statistics has
\* downloaded nothing.
Counters(s, repository_name) ==
    IF repository_name \in DOMAIN s
    THEN [assets |-> s[repository_name].downloaded_assets,
          size   |-> s[repository_name].downloaded_size]
    ELSE [assets |-> 0, size |-> 0]

\* A skip test that reads fileSize by its truth value: a declared size of 0
\* counts as no size.
SkipConditionTruthy(disk, full_path, asset) ==
    /\ full_path \in DOMAIN disk
    /\ "fileSize" \in DOMAIN asset
    /\ asset.fileSize # 0
    /\ disk[full_path] = asset.fileSize

\* A skip test that is content with the file being there.
SkipConditionExists(disk, full_path, asset) == full_path \in DOMAIN disk

\* Lines 91-92: the file exists, the asset declares fileSize, sizes are equal.
SkipCondition(disk, full_path, asset) ==
    /\ full_path \in DOMAIN disk
    /\ "fileSize" \in DOMAIN asset
    /\ disk[full_path] = asset.fileSize

\* open(full_path, 'wb'): the file is created or truncated.
OpenTruncate(disk, full_path) ==
    IF full_path \in DOMAIN disk THEN [disk EXCEPT ![full_path] = 0]
    ELSE File(full_path, 0) @@ disk

\* f.write(chunk) of n bytes at the handle's own offset.
WriteAt(disk, full_path, offset, n) ==
    IF full_path \in DOMAIN disk
    THEN [disk EXCEPT ![full_path] = IF @ < offset + n THEN offset + n ELSE @]
    ELSE File(full_path, offset + n) @@ disk

\* The bytes f.write has put on disk for a repository in this run.
Written(w, repository_name) ==
    IF repository_name \in DOMAIN w THEN w[repository_name] ELSE 0

\* response.content.iter_chunked(8192): the length of the next chunk.
NextChunk(body, offset) == Min(CHUNK_SIZE, body - offset)

-----------------------------------------------------------------------------
(* The download tasks of one page, lines 127-130 *)

Assets(items) == Concat([i \in 1..Len(items) |-> items[i].assets])

NewTask(asset, repository_name) ==
    [repo |-> repository_name, asset |-> asset, st |-> "pending",
     off |-> 0, gets |-> 0, errs |-> 0, faulted |-> FALSE]

DownloadTasks(items, repository_name) ==
    LET as == Assets(items)
    IN  [i \in 1..Len(as) |-> NewTask(as[i], repository_name)]

Settled(t) == t.st \in {"skipped", "done", "failed", "cancelled"}
InFlight(t) == t.st \in {"get", "stream"}

\* A failure that cancels the tasks of the batch that are still running.
SiblingsCancelled(ts, i) ==
    [j \in DOMAIN ts |->
        IF j # i /\ ~Settled(ts[j]) THEN [ts[j] EXCEPT !.st = "cancelled"] ELSE ts[j]]

\* What an exception inside one download_asset does to the tasks of the
\* batch: the coroutine catches it (line 110), so nothing.
Siblings(ts, i) == ts

\* The except branch of download_asset (lines 110-111) and the else branch
\* of the status test (lines 108-109): one logging.error, the task returns.
Fail(ts, i, injected) ==
    Siblings([ts EXCEPT ![i].st = "failed", ![i].errs = @ + 1,
                        ![i].faulted = @ \/ injected], i)

CurrentRepo == scenario.repos[repoIdx]

-----------------------------------------------------------------------------
(* The initial state: a fresh process, a server, a destination tree *)

InitWith(scs) ==
    /\ scenario \in scs
    /\ run = 1
    /\ pc = "start"
    /\ repoIdx = 0
    /\ token = Null
    /\ result = Null
    /\ tasks = << >>
    /\ stats = NoStats
    /\ fs = scenario.tree
    /\ clock = 0
    /\ faults = 0
    /\ base = Counters(NoStats, "")
    /\ fetched = << >>
    /\ getLog = {}
    /\ okLog = {}
    /\ printed = << >>
    /\ listed = "no"
    /\ targets = << >>
    /\ written = NoStats
    /\ summary = << >>

Init == InitWith(Scenarios)

\* A transient failure may be injected.
MayFail == faults < MaxFaults

-----------------------------------------------------------------------------
(* The driver: export_all, process_repository, main *)

\* for repo in repositories (line 165): the next repository, or the end.
NextRepository ==
    /\ token' = Null
    /\ result' = Null
    /\ IF repoIdx < Len(scenario.repos)
       THEN repoIdx' = repoIdx + 1 /\ pc' = "repo"
       ELSE repoIdx' = repoIdx /\ pc' = "main"

\* A loop that leaves after its first page whatever the token.
AfterBatchBreak(tok) ==
    /\ token' = tok
    /\ pc' = "summary"

\* Lines 135-137: take the page's token, leave the loop when it is falsy.
AfterBatch(tok) ==
    /\ token' = tok
    /\ pc' = IF Falsy(tok) THEN "summary" ELSE "page"

\* export_all, lines 154-156.  os.makedirs of the output root is outside the
\* inner try: its failure leaves export_all and main by an exception.
export_all ==
    /\ pc = "start"
    /\ \/ pc' = "list" /\ faults' = faults
       \/ MayFail /\ pc' = "crashed" /\ faults' = faults + 1
    /\ UNCHANGED <<scenario, run, repoIdx, token, result, tasks, stats, fs,
                   clock, base, fetched, getLog, okLog, printed, listed, targets, written,
                   summary>>

\* A caller that starts on the repositories whatever the listing's outcome.
AfterListingIgnored(ok) ==
    IF scenario.repos # << >>
    THEN pc' = "repo" /\ repoIdx' = 1
    ELSE pc' = "main" /\ repoIdx' = repoIdx

\* Lines 158-170 of export_all: the loop over the listing is entered only
\* when get_repositories returned; its exception is caught at line 168 and
\* export_all returns.
AfterListing(ok) ==
    IF ok /\ scenario.repos # << >>
    THEN pc' = "repo" /\ repoIdx' = 1
    ELSE pc' = "main" /\ repoIdx' = repoIdx

\* get_repositories and lines 158-170 of export_all.  A failure (a status
\* other than 200 or a transport error) is raised again by get_repositories;
\* an empty listing returns.
get_repositories ==
    /\ pc = "list"
    /\ \E ok \in BOOLEAN :
         /\ ~ok => MayFail
         /\ faults' = IF ok THEN faults ELSE faults + 1
         /\ listed' = IF ok THEN "ok" ELSE "failed"
         /\ AfterListing(ok)
    /\ UNCHANGED <<scenario, run, token, result, tasks, stats, fs, clock,
                   base, fetched, getLog, okLog, printed, targets, written,
                   summary>>

\* process_repository, lines 115-123.  A failure of os.makedirs is caught at
\* line 149 and the repository is given up.
process_repository ==
    /\ pc = "repo"
    /\ \/ /\ faults' = faults
          /\ token' = Null /\ result' = Null
          /\ pc' = "page" /\ repoIdx' = repoIdx
       \/ /\ MayFail
          /\ faults' = faults + 1
          /\ NextRepository
    /\ UNCHANGED <<scenario, run, tasks, stats, fs, clock, base, fetched, getLog,
                   okLog, printed, listed, targets, written,
                   summary>>

\* An error return that hands the caller its own token back.
FailedPageSameToken == [items |-> << >>, continuationToken |-> token]

\* Lines 69 and 72: what get_components returns when the request fails.
FailedPage == [items |-> << >>, continuationToken |-> Null]

\* An await that returns as soon as one task has returned.
JoinedFirst(ts) == \E i \in DOMAIN ts : Settled(ts[i])

\* await asyncio.gather(*download_tasks), line 133: every task has returned.
Joined(ts) == \A i \in DOMAIN ts : Settled(ts[i])

\* get_components and lines 125-137: one page is requested; its assets
\* become the download tasks of the batch; with no task the loop goes on at
\* once.
get_components ==
    /\ pc = "page"
    /\ \E ok \in BOOLEAN :
         LET page == IF ok THEN ServerPage(scenario, CurrentRepo, token)
                     ELSE FailedPage
             download_tasks == DownloadTasks(page.items, CurrentRepo)
         IN  /\ ~ok => MayFail
             /\ faults' = IF ok THEN faults ELSE faults + 1
             /\ fetched' = Append(fetched, [repo |-> CurrentRepo, token |-> token,
                                            ok |-> ok])
             /\ result' = page.continuationToken
             /\ tasks' = download_tasks
             /\ base' = Counters(stats, CurrentRepo)
             /\ IF download_tasks # << >>
                THEN pc' = "gather" /\ token' = token
                ELSE AfterBatch(page.continuationToken)
    /\ UNCHANGED <<scenario, run, repoIdx, stats, fs, clock, getLog, okLog,
                   printed, listed, targets, written,
                   summary>>

\* Lines 133-137: the batch has been awaited, the loop goes on.
gather ==
    /\ pc = "gather"
    /\ Joined(tasks)
    /\ AfterBatch(result)
    /\ UNCHANGED <<scenario, run, repoIdx, result, tasks, stats, fs, clock, faults,
                   base, fetched, getLog, okLog, printed, listed, targets, written,
                   summary>>

\* Lines 139-147: the repository's summary, when it has statistics.
repository_summary ==
    /\ pc = "summary"
    /\ printed' = IF CurrentRepo \in DOMAIN stats
                  THEN Append(printed,
                              [repo |-> CurrentRepo,
                               files |-> stats[CurrentRepo].downloaded_assets,
                               size |-> stats[CurrentRepo].downloaded_size])
                  ELSE printed
    /\ NextRepository
    /\ UNCHANGED <<scenario, run, tasks, stats, fs, clock, faults, base, fetched,
                   getLog, okLog, listed, targets, written,
                   summary>>

RECURSIVE SumOver(_, _, _)
SumOver(s, keys, field) ==
    IF keys = {} THEN 0
    ELSE LET k == CHOOSE x \in keys : TRUE
         IN  s[k][field] + SumOver(s, keys \ {k}, field)

\* A summary whose file total counts the records instead of their assets.
OverallSummaryRecords(s) ==
    [repositories |-> Cardinality(DOMAIN s),
     total_files  |-> Cardinality(DOMAIN s),
     total_size   |-> SumOver(s, DOMAIN s, "downloaded_size")]

\* A summary that counts every repository of the listing as processed.
OverallSummaryListing(s) ==
    [repositories |-> Len(scenario.repos),
     total_files  |-> SumOver(s, DOMAIN s, "downloaded_assets"),
     total_size   |-> SumOver(s, DOMAIN s, "downloaded_size")]

\* main, lines 187-192.
OverallSummary(s) ==
    [repositories |-> Cardinality(DOMAIN s),
     total_files  |-> SumOver(s, DOMAIN s, "downloaded_assets"),
     total_size   |-> SumOver(s, DOMAIN s, "downloaded_size")]

main ==
    /\ pc = "main"
    /\ summary' = << OverallSummary(stats) >>
    /\ pc' = "done"
    /\ UNCHANGED <<scenario, run, repoIdx, token, result, tasks, stats, fs,
                   clock, faults, base, fetched, getLog, okLog, printed, listed,
                   targets, written>>

-----------------------------------------------------------------------------
(* download_asset, one action per stretch of code between two awaits *)

\* Lines 76-98: the path, the lazy creation of the statistics, the skip
\* test, os.makedirs, and the GET is issued.  The first steps of the tasks
\* of a batch run in the order of download_tasks.
download_asset_start(i) ==
    LET t == tasks[i]
        full_path == FullPath(t.repo, t.asset.path)
    IN  /\ t.st = "pending"
        /\ \A j \in 1..(i - 1) : tasks[j].st # "pending"
        /\ stats' = InitStats(stats, t.repo, clock)
        /\ clock' = clock + 1
        /\ targets' = Append(targets, [repo |-> t.repo, full_path |-> full_path])
        /\ IF SkipCondition(fs, full_path, t.asset)
           THEN /\ tasks' = [tasks EXCEPT ![i].st = "skipped"]
                /\ UNCHANGED <<faults, getLog>>
           ELSE \/ /\ tasks' = [tasks EXCEPT ![i].st = "get", ![i].gets = @ + 1]
                   /\ getLog' = getLog \cup {<<run, t.repo, t.asset.path>>}
                   /\ faults' = faults
                \/ /\ MayFail            \* os.makedirs raises
                   /\ faults' = faults + 1
                   /\ tasks' = Fail(tasks, i, TRUE)
                   /\ getLog' = getLog
        /\ UNCHANGED <<scenario, run, pc, repoIdx, token, result, fs, base, fetched,
                       okLog, printed, listed, written, summary>>

\* A destination that is opened before the status is looked at.
AfterStatusOpenFirst(disk, full_path, status) == OpenTruncate(disk, full_path)

\* Lines 99-100: open(full_path, 'wb') is inside if response.status == 200.
AfterStatus(disk, full_path, status) ==
    IF status = 200 THEN OpenTruncate(disk, full_path) ELSE disk

\* Lines 98-100 and 108-109: the response arrives.  With status 200 the
\* destination is opened for writing; any other status is logged.
download_asset_response(i) ==
    LET t == tasks[i]
        full_path == FullPath(t.repo, t.asset.path)
    IN  /\ t.st = "get"
        /\ \/ /\ t.asset.status = 200
              /\ fs' = AfterStatus(fs, full_path, t.asset.status)
              /\ tasks' = [tasks EXCEPT ![i].st = "stream"]
              /\ faults' = faults
           \/ /\ t.asset.status # 200
              /\ fs' = AfterStatus(fs, full_path, t.asset.status)
              /\ tasks' = Fail(tasks, i, FALSE)
              /\ faults' = faults
           \/ /\ MayFail                \* the request or open() raises
              /\ faults' = faults + 1
              /\ tasks' = Fail(tasks, i, TRUE)
              /\ fs' = fs
        /\ UNCHANGED <<scenario, run, pc, repoIdx, token, result, stats, clock,
                       base, fetched, getLog, okLog, printed, listed, targets, written,
                   summary>>

\* Lines 101-103: one chunk arrives, is written, and is counted.
download_asset_chunk(i) ==
    LET t == tasks[i]
        full_path == FullPath(t.repo, t.asset.path)
        n == NextChunk(t.asset.body, t.off)
    IN  /\ t.st = "stream"
        /\ t.off < t.asset.body
        /\ \/ /\ fs' = WriteAt(fs, full_path, t.off, n)
              /\ written' = (t.repo :> (Written(written, t.repo) + n)) @@ written
              /\ stats' = AddBytes(stats, t.repo, n)
              /\ tasks' = [tasks EXCEPT ![i].off = @ + n]
              /\ faults' = faults
           \/ /\ MayFail                \* the stream or f.write raises
              /\ faults' = faults + 1
              /\ tasks' = Fail(tasks, i, TRUE)
              /\ UNCHANGED <<fs, stats, written>>
        /\ UNCHANGED <<scenario, run, pc, repoIdx, token, result, clock,
                       base, fetched, getLog, okLog, printed, listed, targets,
                       summary>>

\* Lines 101 and 105-107: the body has ended; the file is closed and the
\* asset is counted.
download_asset_finish(i) ==
    LET t == tasks[i]
    IN  /\ t.st = "stream"
        /\ t.off = t.asset.body
        /\ \/ /\ stats' = AddAsset(stats, t.repo)
              /\ tasks' = [tasks EXCEPT ![i].st = "done"]
              /\ okLog' = okLog \cup {<<run, t.repo, t.asset.path>>}
              /\ faults' = faults
           \/ /\ MayFail                \* the stream raises at its end
              /\ faults' = faults + 1
              /\ tasks' = Fail(tasks, i, TRUE)
              /\ UNCHANGED <<stats, okLog>>
        /\ UNCHANGED <<scenario, run, pc, repoIdx, token, result, fs, clock,
                       base, fetched, getLog, printed, listed, targets, written,
                   summary>>

-----------------------------------------------------------------------------
(* The program is run again on the tree the last run left *)

rerun ==
    /\ pc \in {"done", "crashed"}
    /\ run < MaxRuns
    /\ run' = run + 1
    /\ pc' = "start"
    /\ repoIdx' = 0
    /\ token' = Null
    /\ result' = Null
    /\ tasks' = << >>
    /\ stats' = NoStats
    /\ clock' = 0
    /\ faults' = 0
    /\ base' = Counters(NoStats, "")
    /\ fetched' = << >>
    /\ printed' = << >>
    /\ listed' = "no"
    /\ targets' = << >>
    /\ written' = NoStats
    /\ summary' = << >>
    /\ UNCHANGED <<scenario, fs, getLog, okLog>>

-----------------------------------------------------------------------------

Next ==
    \/ export_all
    \/ get_repositories
    \/ process_repository
    \/ get_components
    \/ \E i \in DOMAIN tasks : download_asset_start(i)
    \/ \E i \in DOMAIN tasks : download_asset_response(i)
    \/ \E i \in DOMAIN tasks : download_asset_chunk(i)
    \/ \E i \in DOMAIN tasks : download_asset_finish(i)
    \/ gather
    \/ repository_summary
    \/ main

Spec == Init /\ [][Next]_vars

\* The same program against servers that also include the page of eleven.
SpecCeiling == InitWith(Scenarios \cup {ScBigBatch}) /\ [][Next]_vars

\* The same program against servers that may also list a path twice.
SpecAnyListing == InitWith(Scenarios \cup {ScTwice}) /\ [][Next]_vars

-----------------------------------------------------------------------------
(* C1: at every instant at most MAX_CONCURRENT_DOWNLOADS download tasks    *)
(* have issued their GET and not yet finished, whatever the batch size.    *)

Transfers == {i \in DOMAIN tasks : InFlight(tasks[i])}

ConcurrencyCeiling == Cardinality(Transfers) <= MAX_CONCURRENT_DOWNLOADS

-----------------------------------------------------------------------------
(* C2: when download_asset starts for an asset whose destination exists,   *)
(* that declares fileSize, and whose local size equals fileSize exactly    *)
(* (0 included), the task returns at once: no GET is issued, the disk is   *)
(* not touched and the repository's two counters keep their values.        *)

\* Task i takes its first step in this transition.
Starts(i) ==
    /\ i \in DOMAIN tasks
    /\ tasks[i].st = "pending"
    /\ i \in DOMAIN tasks'
    /\ tasks'[i].st # "pending"

\* The destination of task i exists with exactly the declared size.
UpToDate(i) ==
    LET full_path == BASE_OUTPUT_DIR \o "/" \o tasks[i].repo \o "/" \o tasks[i].asset.path
    IN  /\ full_path \in DOMAIN fs
        /\ "fileSize" \in DOMAIN tasks[i].asset
        /\ fs[full_path] = tasks[i].asset.fileSize

SkipPolicy ==
    [][\A i \in DOMAIN tasks :
          (Starts(i) /\ UpToDate(i)) =>
              /\ tasks'[i].st = "skipped"
              /\ tasks'[i].gets = 0
              /\ getLog' = getLog
              /\ fs' = fs
              /\ Counters(stats', tasks[i].repo) = Counters(stats, tasks[i].repo)]_vars

\* An empty file that matches a declared size of 0 has been skipped.
SkipPolicyWitness ==
    \E i \in DOMAIN tasks :
        /\ tasks[i].st = "skipped"
        /\ tasks[i].asset.fileSize = 0
        /\ tasks[i].gets = 0

-----------------------------------------------------------------------------
(* C3: an asset that is not up to date (destination missing, no fileSize,  *)
(* or another local size, such as 999 for 1000) is downloaded: its task    *)
(* issues one GET, and only one; on success the destination holds the      *)
(* response body; and no task is both skipped and counted.                 *)

\* The transition belongs to the batch that holds task i.
SameBatch == fetched' = fetched /\ run' = run

Destination(i) == BASE_OUTPUT_DIR \o "/" \o tasks[i].repo \o "/" \o tasks[i].asset.path

\* The claim as written: every such task issues exactly one GET.
ExactlyOneGet ==
    [][\A i \in DOMAIN tasks :
          (Starts(i) /\ ~UpToDate(i)) => tasks'[i].gets = 1]_vars

\* As amended: the GET is missing only when creating the destination
\* directory failed, which ends the task before the request.
OneDownloadAttempt ==
    [][\A i \in DOMAIN tasks :
          /\ (Starts(i) /\ ~UpToDate(i)) =>
                \/ tasks'[i].st = "get" /\ tasks'[i].gets = 1
                \/ tasks'[i].st = "failed" /\ tasks'[i].gets = 0 /\ tasks'[i].faulted
          /\ (SameBatch /\ tasks[i].st # "pending") => tasks'[i].gets = tasks[i].gets
          /\ (SameBatch /\ tasks[i].st = "stream" /\ tasks'[i].st = "done") =>
                /\ Destination(i) \in DOMAIN fs'
                /\ fs'[Destination(i)] = tasks[i].asset.body
          /\ (SameBatch /\ tasks'[i].st = "skipped") =>
                <<run, tasks[i].repo, tasks[i].asset.path>> \notin okLog']_vars

\* The file that was 999 bytes for a declared 1000 has been downloaded again.
OneDownloadAttemptWitness ==
    \E i \in DOMAIN tasks :
        /\ tasks[i].st = "done"
        /\ tasks[i].gets = 1
        /\ Destination(i) \in DOMAIN scenario.tree
        /\ scenario.tree[Destination(i)] = 999
        /\ tasks[i].asset.fileSize = 1000
        /\ fs[Destination(i)] = 1000

-----------------------------------------------------------------------------
(* C4: the export is run twice in a row against the same server.  An asset *)
(* that declares fileSize, whose body has that length, and that an earlier *)
(* run downloaded successfully is not requested again: the later run       *)
(* issues no GET for it and counts neither the asset nor a byte of it.     *)

RerunScenarios == {ScStats, ScResume, ScEmptyToken}

NextRerun == Next \/ rerun

SpecRerun == InitWith(RerunScenarios) /\ [][NextRerun]_vars

\* The asset declares the length its body has.
Sized(asset) == "fileSize" \in DOMAIN asset /\ asset.fileSize = asset.body

DownloadedBefore(repository_name, path) ==
    \E k \in 1..(run - 1) : <<k, repository_name, path>> \in okLog

SkipIdempotence ==
    \A i \in DOMAIN tasks :
        (Sized(tasks[i].asset) /\ DownloadedBefore(tasks[i].repo, tasks[i].asset.path)) =>
            /\ tasks[i].st \in {"pending", "skipped"}
            /\ tasks[i].gets = 0
            /\ tasks[i].off = 0
            /\ <<run, tasks[i].repo, tasks[i].asset.path>> \notin getLog
            /\ <<run, tasks[i].repo, tasks[i].asset.path>> \notin okLog

\* A second run has skipped an asset that the first run downloaded, and has
\* ended with no download at all.
SkipIdempotenceWitness ==
    /\ run = 2
    /\ pc = "done"
    /\ summary[1].total_files = 0
    /\ \E i \in DOMAIN tasks :
          /\ tasks[i].st = "skipped"
          /\ <<1, tasks[i].repo, tasks[i].asset.path>> \in okLog

-----------------------------------------------------------------------------
(* C5: for a page chain with tokens on pages 1..N and a null token on page *)
(* N+1, the loop of process_repository requests exactly N+1 pages, the     *)
(* first without a token and each later one with the token of the page     *)
(* before it, and then stops.  (Stated for the repository whose loop has   *)
(* just ended, all of its requests having been answered.)                  *)

FetchesOf(repository_name) ==
    SelectSeq(fetched, LAMBDA f : f.repo = repository_name)

AllAnswered(fs_) == \A k \in DOMAIN fs_ : fs_[k].ok

\* The loop asked for the first n pages of the chain, each with the token
\* of the page before.
VisitedInOrder(repository_name, n) ==
    LET chain == scenario.pages[repository_name]
        reqs == FetchesOf(repository_name)
    IN  /\ Len(reqs) = n
        /\ \A k \in 1..n :
              reqs[k].token = IF k = 1 THEN "null" ELSE chain[k - 1].continuationToken

\* The first page of the chain whose token is null.
FirstNullPage(chain) ==
    CHOOSE n \in DOMAIN chain :
        /\ chain[n].continuationToken = "null"
        /\ \A k \in 1..(n - 1) : chain[k].continuationToken # "null"

\* The first page of the chain whose token is null or the empty string.
FirstEmptyPage(chain) ==
    CHOOSE n \in DOMAIN chain :
        /\ chain[n].continuationToken \in {"null", ""}
        /\ \A k \in 1..(n - 1) : chain[k].continuationToken \notin {"null", ""}

LoopEnded == pc = "summary" /\ AllAnswered(FetchesOf(CurrentRepo))

\* The claim as written: the loop runs to the first null token.
PaginationToNull ==
    LoopEnded =>
        VisitedInOrder(CurrentRepo, FirstNullPage(scenario.pages[CurrentRepo]))

\* As amended: the loop runs to the first token that is null or empty.
PaginationTermination ==
    LoopEnded =>
        VisitedInOrder(CurrentRepo, FirstEmptyPage(scenario.pages[CurrentRepo]))

\* The loop has ended after the three pages of a chain with two tokens.
PaginationWitness ==
    /\ LoopEnded
    /\ Len(FetchesOf(CurrentRepo)) = 3
    /\ FirstNullPage(scenario.pages[CurrentRepo]) = 3

-----------------------------------------------------------------------------
(* C6: a failed page request does not raise.  It yields an empty page with *)
(* a null token: no download task is created from it, the loop is left so  *)
(* that no further page of the repository is requested, the statistics of  *)
(* the earlier pages stay as they are, and the driver goes on with the     *)
(* next repository of the listing.                                         *)

\* This transition is a get_components call that failed.
PageFails ==
    /\ Len(fetched') = Len(fetched) + 1
    /\ ~fetched'[Len(fetched')].ok

PageFailureDegrades ==
    [][/\ PageFails =>
            /\ tasks' = << >>
            /\ result' = "null"
            /\ pc' = "summary"
            /\ repoIdx' = repoIdx
            /\ stats' = stats
            /\ getLog' = getLog
            /\ okLog' = okLog
            /\ fs' = fs
       /\ Len(fetched') > Len(fetched) =>
            \A k \in DOMAIN fetched :
                ~fetched[k].ok => fetched'[Len(fetched')].repo # fetched[k].repo
       /\ (pc = "summary" /\ pc' # "summary") =>
            IF repoIdx < Len(scenario.repos)
            THEN repoIdx' = repoIdx + 1 /\ pc' = "repo"
            ELSE pc' = "main"]_vars

\* The request for the second page of r1 failed after the first page's
\* downloads were counted, and the driver is at the next repository.
PageFailureWitness ==
    /\ repoIdx = 2
    /\ pc = "page"
    /\ \E k \in DOMAIN fetched :
          fetched[k] = [repo |-> "r1", token |-> "t2", ok |-> FALSE]
    /\ Counters(stats, "r1").assets >= 1
    /\ Len(FetchesOf("r1")) = 2

-----------------------------------------------------------------------------
(* C7: in a batch, the failure of one asset (status, network, filesystem)  *)
(* neither cancels nor fails the other tasks.  Every other asset that is   *)
(* not skipped completes and is counted: with k failing assets out of n    *)
(* that are not skipped, downloaded_assets grows by n - k, and one error   *)
(* is logged per failed asset.                                             *)

BatchEnded == tasks # << >> /\ \A i \in DOMAIN tasks : Settled(tasks[i])

\* The download of this task was refused or broken.
Broken(t) == t.asset.status # 200 \/ t.faulted

Downloadable == {i \in DOMAIN tasks : tasks[i].st # "skipped"}
Failing == {i \in Downloadable : Broken(tasks[i])}
Done == {i \in DOMAIN tasks : tasks[i].st = "done"}

BatchRepo == tasks[1].repo

FailureIsolation ==
    tasks # << >> =>
        /\ Counters(stats, BatchRepo).assets - base.assets = Cardinality(Done)
        /\ \A i \in DOMAIN tasks : tasks[i].errs = IF tasks[i].st = "failed" THEN 1 ELSE 0
        /\ BatchEnded =>
              /\ \A i \in Downloadable \ Failing : tasks[i].st = "done"
              /\ \A i \in Failing : tasks[i].st = "failed"
              /\ Counters(stats, BatchRepo).assets - base.assets
                    = Cardinality(Downloadable) - Cardinality(Failing)

\* A batch of five has ended: the third asset failed, four are counted and
\* one error is logged.
FailureIsolationWitness ==
    /\ BatchEnded
    /\ Len(tasks) = 5
    /\ Failing = {3}
    /\ tasks[3].asset.status = 500
    /\ Counters(stats, BatchRepo).assets = 4
    /\ SumSeq([i \in DOMAIN tasks |-> tasks[i].errs]) = 1

-----------------------------------------------------------------------------
(* C8: a failed download (status, or an I/O or network failure at any      *)
(* point, also after chunks were written) leaves downloaded_assets and     *)
(* downloaded_size as they would be without the attempt: when a batch has  *)
(* ended, the counters have grown by what the successful tasks brought.    *)

FailureLeavesCounters ==
    BatchEnded =>
        /\ Counters(stats, BatchRepo).assets - base.assets = Cardinality(Done)
        /\ Counters(stats, BatchRepo).size - base.size
              = SumSeq([i \in DOMAIN tasks |->
                          IF tasks[i].st = "done" THEN tasks[i].asset.body ELSE 0])

-----------------------------------------------------------------------------
(* C9: after a batch in which every asset was downloaded successfully,     *)
(* whatever the interleaving of the tasks' chunk writes, downloaded_assets *)
(* has grown by the number of assets and downloaded_size by the sum of     *)
(* their body lengths (3 and 600 for 100, 200 and 300 bytes).              *)

AllDownloaded == BatchEnded /\ \A i \in DOMAIN tasks : tasks[i].st = "done"

StatsAccuracy ==
    AllDownloaded =>
        /\ Counters(stats, BatchRepo).assets - base.assets = Len(tasks)
        /\ Counters(stats, BatchRepo).size - base.size
              = SumSeq([i \in DOMAIN tasks |-> tasks[i].asset.body])

StatsAccuracyWitness ==
    /\ AllDownloaded
    /\ [i \in DOMAIN tasks |-> tasks[i].asset.body] = <<100, 200, 300>>
    /\ stats["r1"].downloaded_assets = 3
    /\ stats["r1"].downloaded_size = 600

-----------------------------------------------------------------------------
(* C10: repositories are processed one at a time, in listing order.  Every *)
(* task that has not returned belongs to the repository being processed,   *)
(* the driver leaves the batch only when all of its tasks have returned,   *)
(* and the page requests follow the order of the listing.                  *)

ListingIndex(repository_name) ==
    CHOOSE k \in DOMAIN scenario.repos : scenario.repos[k] = repository_name

Sequential ==
    /\ \A i \in DOMAIN tasks :
          ~Settled(tasks[i]) => pc = "gather" /\ tasks[i].repo = CurrentRepo
    /\ \A k \in DOMAIN fetched :
          /\ ListingIndex(fetched[k].repo) <= repoIdx
          /\ \A m \in 1..(k - 1) :
                ListingIndex(fetched[m].repo) <= ListingIndex(fetched[k].repo)

\* The second repository's download is running after the first
\* repository's downloads have all been counted.
SequentialWitness ==
    /\ repoIdx = 2
    /\ \E i \in DOMAIN tasks : InFlight(tasks[i]) /\ tasks[i].repo = "r2"
    /\ Counters(stats, "r1").assets = 2

-----------------------------------------------------------------------------
(* C11: when listing the repositories fails, the run aborts: no repository *)
(* is processed, no component page is requested, no asset GET is issued,   *)
(* and self.stats is empty when the run ends (the overall summary then     *)
(* reports zero repositories, files and bytes).                            *)

ListingFailureAborts ==
    listed = "failed" =>
        /\ pc \in {"main", "done"}
        /\ repoIdx = 0
        /\ fetched = << >>
        /\ targets = << >>
        /\ \A e \in getLog : e[1] # run
        /\ printed = << >>
        /\ stats = NoStats
        /\ pc = "done" =>
             summary = << [repositories |-> 0, total_files |-> 0,
                           total_size |-> 0] >>

ListingFailureWitness ==
    /\ listed = "failed"
    /\ scenario.repos # << >>
    /\ pc = "done"

-----------------------------------------------------------------------------
(* C12: every run comes to its final summary, and unless the listing       *)
(* failed every repository of the listing has been processed by then,      *)
(* whatever failed on the way.  Stated on the runs that have stopped: a    *)
(* state in which the program can take no further step is the state after  *)
(* main's summary, with the whole listing visited.                         *)

RunEndsInSummary ==
    ~(ENABLED Next) =>
        /\ pc = "done"
        /\ summary # << >>
        /\ listed = "ok" => repoIdx = Len(scenario.repos)

-----------------------------------------------------------------------------
(* C13: within a repository a page is requested only when every download   *)
(* task of the page before it has returned (completed, skipped or failed), *)
(* and a task moves only while the loop awaits its own batch: fetches and  *)
(* batches alternate, and tasks of two pages are never in flight together. *)

Returned(i) == tasks[i].st \in {"skipped", "done", "failed"}

PagesAlternate ==
    [][/\ Len(fetched') > Len(fetched) =>
            \A i \in DOMAIN tasks : Returned(i)
       /\ (tasks' # tasks /\ fetched' = fetched /\ run' = run) =>
            /\ pc = "gather"
            /\ fetched[Len(fetched)].repo = tasks[1].repo
            /\ Len(tasks') = Len(tasks)]_vars

\* The second page of a repository is being downloaded after a first page
\* that had tasks.
PagesAlternateWitness ==
    /\ fetched # << >>
    /\ ~Falsy(fetched[Len(fetched)].token)
    /\ \E e \in getLog : e[1] = run /\ e[2] = fetched[Len(fetched)].repo
                         /\ \A i \in DOMAIN tasks : e[3] # tasks[i].asset.path
    /\ \E i \in DOMAIN tasks : InFlight(tasks[i])

-----------------------------------------------------------------------------
(* C14: downloaded_size grows chunk by chunk as the chunks are written: in *)
(* every reachable state a repository's downloaded_size is the number of   *)
(* bytes its download tasks have written to disk so far in this run,       *)
(* whether the tasks have finished, are in flight, or were aborted.        *)

RECURSIVE Offsets(_, _)
Offsets(ts, n) == IF n = 0 THEN 0 ELSE ts[n].off + Offsets(ts, n - 1)

BytesAsWritten ==
    /\ \A r \in DOMAIN stats : stats[r].downloaded_size = Written(written, r)
    /\ \A r \in DOMAIN written : r \in DOMAIN stats
    /\ tasks # << >> =>
         Counters(stats, tasks[1].repo).size = base.size + Offsets(tasks, Len(tasks))

\* One task is in the middle of its body, another was aborted after a chunk.
BytesAsWrittenWitness ==
    \E i, j \in DOMAIN tasks :
        /\ tasks[i].st = "stream"
        /\ tasks[i].off > 0
        /\ tasks[i].off < tasks[i].asset.body
        /\ tasks[j].st = "failed"
        /\ tasks[j].off > 0
        /\ stats[tasks[i].repo].downloaded_size = tasks[i].off + tasks[j].off

-----------------------------------------------------------------------------
(* C15: a repository's statistics record is created at most once per run,  *)
(* under the repository's name, by the first of its download tasks to      *)
(* start; every later task finds it, and it is never replaced or reset:    *)
(* its start time stays and its counters are not set back.                 *)

Listing == {scenario.repos[k] : k \in DOMAIN scenario.repos}

StartedFor(tg, repository_name) ==
    {k \in DOMAIN tg : tg[k].repo = repository_name}

StatsCreatedOnce ==
    [][run' = run =>
        /\ DOMAIN stats' \subseteq Listing
        /\ \A r \in DOMAIN stats :
             /\ r \in DOMAIN stats'
             /\ stats'[r].start_time = stats[r].start_time
             /\ stats'[r].downloaded_assets >= stats[r].downloaded_assets
             /\ stats'[r].downloaded_size >= stats[r].downloaded_size
        /\ \A r \in DOMAIN stats' \ DOMAIN stats :
             /\ StartedFor(targets, r) = {}
             /\ StartedFor(targets', r) = {Len(targets')}
             /\ stats'[r] = [downloaded_assets |-> 0, downloaded_size |-> 0,
                             start_time |-> clock]
        /\ \A r \in Listing :
             StartedFor(targets', r) # {} => r \in DOMAIN stats']_vars

\* Three tasks of one repository have started, the record is the one the
\* first of them made, and it has counted since.
StatsCreatedOnceWitness ==
    /\ Len(targets) >= 3
    /\ targets[1].repo = targets[3].repo
    /\ stats[targets[1].repo].start_time = 0
    /\ stats[targets[1].repo].downloaded_size > 0
    /\ \E i \in DOMAIN tasks : tasks[i].st = "get"

-----------------------------------------------------------------------------
(* C16: for every repository downloaded_assets and downloaded_size never   *)
(* decrease during a run: every step of every operation (download, skip,   *)
(* failure, page request, summary) leaves each counter at or above its     *)
(* value before the step.                                                  *)

CountersMonotone ==
    [][run' = run =>
        \A r \in Listing :
            /\ Counters(stats', r).assets >= Counters(stats, r).assets
            /\ Counters(stats', r).size >= Counters(stats, r).size]_vars

\* Both counters have grown, a page request has failed, the repository's
\* summary has been printed and the run is over.
CountersMonotoneWitness ==
    /\ \E r \in DOMAIN stats : /\ stats[r].downloaded_assets > 0
                               /\ stats[r].downloaded_size > 0
                               /\ \E k \in DOMAIN printed : printed[k].repo = r
    /\ \E k \in DOMAIN fetched : ~fetched[k].ok
    /\ pc = "done"

-----------------------------------------------------------------------------
(* C17: within a run no two download tasks target the same destination     *)
(* path, provided the server names every repository once and lists every   *)
(* asset path at most once within a repository; in particular no two tasks *)
(* then write the same file at the same time.                              *)

RepoAssets(sc, repository_name) ==
    Concat([k \in DOMAIN sc.pages[repository_name] |->
               Assets(sc.pages[repository_name][k].items)])

Distinct(seq) == \A k, n \in DOMAIN seq : k # n => seq[k] # seq[n]

UniquePaths(sc) ==
    /\ Distinct(sc.repos)
    /\ \A k \in DOMAIN sc.repos :
         LET as == RepoAssets(sc, sc.repos[k])
         IN  Distinct([n \in DOMAIN as |-> as[n].path])

DistinctDestinations ==
    UniquePaths(scenario) =>
        /\ Distinct([k \in DOMAIN targets |-> targets[k].full_path])
        /\ \A i, j \in DOMAIN tasks :
             i # j => FullPath(tasks[i].repo, tasks[i].asset.path)
                      # FullPath(tasks[j].repo, tasks[j].asset.path)

\* Two repositories hold an asset of the same relative path: the first was
\* started earlier in the run, the second is being written.
DistinctDestinationsWitness ==
    /\ UniquePaths(scenario)
    /\ \E k, n \in DOMAIN targets :
         /\ targets[k].repo # targets[n].repo
         /\ \E i \in DOMAIN tasks :
              /\ tasks[i].st = "stream"
              /\ targets[n].full_path = FullPath(tasks[i].repo, tasks[i].asset.path)
              /\ targets[k].full_path = FullPath(targets[k].repo, tasks[i].asset.path)

\* The claim as written, for whatever the server lists: no two tasks are
\* writing to the same file at the same time.
NoSharedDestination ==
    \A i, j \in DOMAIN tasks :
        (i # j /\ tasks[i].st = "stream" /\ tasks[j].st = "stream") =>
            FullPath(tasks[i].repo, tasks[i].asset.path)
            # FullPath(tasks[j].repo, tasks[j].asset.path)

-----------------------------------------------------------------------------
(* C18: the final summary is computed from the accumulated statistics:     *)
(* total files is the sum of downloaded_assets over the repositories,      *)
(* which is the number of downloads that completed in the run, and total   *)
(* bytes is the sum of downloaded_size over the repositories.              *)

Completed == {e \in okLog : e[1] = run}

SummaryTotals ==
    pc = "done" =>
        /\ Len(summary) = 1
        /\ summary[1].total_files =
             SumSeq([k \in DOMAIN scenario.repos |->
                        Counters(stats, scenario.repos[k]).assets])
        /\ summary[1].total_files = Cardinality(Completed)
        /\ summary[1].total_size =
             SumSeq([k \in DOMAIN scenario.repos |->
                        Counters(stats, scenario.repos[k]).size])

\* Three downloads of the run completed and a fourth was refused by the
\* server.
SummaryTotalsWitness ==
    /\ pc = "done"
    /\ summary[1].total_files = 3
    /\ summary[1].total_size > 0
    /\ Cardinality({e \in getLog : e[1] = run}) > 3

-----------------------------------------------------------------------------
(* C19: a download attempt that is answered with a status other than 200   *)
(* leaves the destination untouched: the file is opened (and truncated)    *)
(* only after a 200, so a file that was there keeps its size and a file    *)
(* that was not there is not created.                                      *)

Refused(i) ==
    /\ tasks[i].st = "get"
    /\ tasks[i].asset.status # 200
    /\ tasks'[i].st = "failed"
    /\ ~tasks'[i].faulted

AsFound(disk, tree, full_path) ==
    IF full_path \in DOMAIN tree
    THEN full_path \in DOMAIN disk /\ disk[full_path] = tree[full_path]
    ELSE full_path \notin DOMAIN disk

RefusedLeavesFile ==
    [][(fetched' = fetched /\ run' = run) =>
          \A i \in DOMAIN tasks :
              Refused(i) =>
                  /\ fs' = fs
                  /\ UniquePaths(scenario) /\ run = 1 =>
                       AsFound(fs', scenario.tree,
                               FullPath(tasks[i].repo, tasks[i].asset.path))]_vars

\* A stale local file whose download was refused is still there at its old
\* size.
RefusedLeavesFileWitness ==
    \E i \in DOMAIN tasks :
        LET full_path == FullPath(tasks[i].repo, tasks[i].asset.path)
        IN  /\ tasks[i].st = "failed"
            /\ tasks[i].gets = 1
            /\ ~tasks[i].faulted
            /\ tasks[i].asset.status # 200
            /\ full_path \in DOMAIN fs
            /\ fs[full_path] > 0
            /\ fs[full_path] # tasks[i].asset.fileSize

-----------------------------------------------------------------------------
(* C20: the repositories that have a statistics record, a per-repository   *)
(* summary and a place in the "repositories processed" figure are exactly  *)
(* those for which at least one download_asset task was started: a         *)
(* repository without any asset, or whose first page request failed, has   *)
(* none of the three, and one whose assets were all skipped is counted     *)
(* with zero files and zero bytes.                                         *)

StartedRepos == {targets[k].repo : k \in DOMAIN targets}

\* The repositories the loop of export_all has left behind.
Left ==
    {scenario.repos[k] :
        k \in {n \in DOMAIN scenario.repos :
                  n < repoIdx \/ (n = repoIdx /\ pc \in {"main", "done"})}}

ProcessedAreStarted ==
    /\ DOMAIN stats = StartedRepos
    /\ {printed[k].repo : k \in DOMAIN printed} = StartedRepos \cap Left
    /\ Distinct([k \in DOMAIN printed |-> printed[k].repo])
    /\ \A k \in DOMAIN printed :
         (\A e \in getLog : ~(e[1] = run /\ e[2] = printed[k].repo)) =>
             printed[k].files = 0 /\ printed[k].size = 0
    /\ pc = "done" =>
         /\ summary[1].repositories = Cardinality(StartedRepos)
         /\ {printed[k].repo : k \in DOMAIN printed} = StartedRepos

\* Of three repositories the first had its only asset skipped, the first
\* page of the second failed and the third has no asset: one repository is
\* reported, with zero files and zero bytes.
ProcessedAreStartedWitness ==
    /\ pc = "done"
    /\ Len(fetched) = 3
    /\ fetched[1].ok /\ ~fetched[2].ok /\ fetched[3].ok
    /\ Len(targets) = 1
    /\ getLog = {}
    /\ printed = << [repo |-> scenario.repos[1], files |-> 0, size |-> 0] >>
    /\ summary = << [repositories |-> 1, total_files |-> 0, total_size |-> 0] >>

=============================================================================
